---- MODULE Spec2Model ----
(***************************************************************************)
(* Model of the network-all-aws-connector worker: a NATS subscriber that   *)
(* decodes a network event, validates it, runs the create / delete         *)
(* sequence against the EC2 API and publishes <subject>.done or            *)
(* <subject>.error.                                                        *)
(*                                                                         *)
(* Strings are TLA+ strings.  A JSON document is a record                  *)
(*   [kind, raw, members]                                                  *)
(* where kind is "object" (members is the sequence of key/value pairs in   *)
(* document order), "null", or a kind that encoding/json rejects; raw      *)
(* holds the text of a document that is not an object.  A JSON value is a  *)
(* record [t, s, b] (type, string payload, boolean payload).               *)
(***************************************************************************)
EXTENDS Integers, Sequences, FiniteSets, TLC

(***************************************************************************)
(* Bounds of the model.                                                    *)
(***************************************************************************)
\* number of messages the bus delivers (each is handled by its own goroutine)
MaxReq == 2
\* cap on the iterations of the interface poll that the model follows
MaxPolls == 2
\* largest number of network interfaces attached to a subnet
MaxEni == 1

Requests == 1..MaxReq

(***************************************************************************)
(* Errors: Go's error interface, nil or a value with a message.            *)
(***************************************************************************)
Nil == [nil |-> TRUE, msg |-> ""]
NewError(m) == [nil |-> FALSE, msg |-> m]

ErrDatacenterIDInvalid == NewError("Datacenter VPC ID invalid")
ErrDatacenterRegionInvalid == NewError("Datacenter Region invalid")
ErrDatacenterCredentialsInvalid == NewError("Datacenter credentials invalid")
ErrNetworkSubnetInvalid == NewError("Network subnet invalid")
ErrNetworkAWSIDInvalid == NewError("Network aws id invalid")

(***************************************************************************)
(* JSON values and documents.                                              *)
(***************************************************************************)
JStr(s) == [t |-> "string", s |-> s, b |-> FALSE]
JBool(b) == [t |-> "bool", s |-> "", b |-> b]
JNum(s) == [t |-> "number", s |-> s, b |-> FALSE]
JNull == [t |-> "null", s |-> "", b |-> FALSE]

JObject(ms) == [kind |-> "object", raw |-> "", members |-> ms]
JRaw(k, text) == [kind |-> k, raw |-> text, members |-> << >>]

(***************************************************************************)
(* The Event struct: its exported fields in declaration order with their   *)
(* json tags, and the two unexported fields subject and body.              *)
(***************************************************************************)
EventFields ==
  << [name |-> "UUID",                  tag |-> "_uuid",             type |-> "string", omitempty |-> FALSE],
     [name |-> "BatchID",               tag |-> "_batch_id",         type |-> "string", omitempty |-> FALSE],
     [name |-> "ProviderType",          tag |-> "_type",             type |-> "string", omitempty |-> FALSE],
     [name |-> "DatacenterRegion",      tag |-> "datacenter_region", type |-> "string", omitempty |-> FALSE],
     [name |-> "DatacenterAccessKey",   tag |-> "datacenter_secret", type |-> "string", omitempty |-> FALSE],
     [name |-> "DatacenterAccessToken", tag |-> "datacenter_token",  type |-> "string", omitempty |-> FALSE],
     [name |-> "VPCID",                 tag |-> "vpc_id",            type |-> "string", omitempty |-> FALSE],
     [name |-> "NetworkAWSID",          tag |-> "network_aws_id",    type |-> "string", omitempty |-> TRUE],
     [name |-> "Name",                  tag |-> "name",              type |-> "string", omitempty |-> FALSE],
     [name |-> "Subnet",                tag |-> "range",             type |-> "string", omitempty |-> FALSE],
     [name |-> "IsPublic",              tag |-> "is_public",         type |-> "bool",   omitempty |-> FALSE],
     [name |-> "AvailabilityZone",      tag |-> "availability_zone", type |-> "string", omitempty |-> FALSE],
     [name |-> "ErrorMessage",          tag |-> "error_message",     type |-> "string", omitempty |-> TRUE] >>

\* the zero value Event{}; its body is a nil []byte, which does not decode
Event ==
  [ UUID |-> "", BatchID |-> "", ProviderType |-> "",
    DatacenterRegion |-> "", DatacenterAccessKey |-> "", DatacenterAccessToken |-> "",
    VPCID |-> "", NetworkAWSID |-> "", Name |-> "", Subnet |-> "",
    IsPublic |-> FALSE, AvailabilityZone |-> "", ErrorMessage |-> "",
    subject |-> "", body |-> JRaw("malformed", "") ]

New(subject, body) == [Event EXCEPT !.subject = subject, !.body = body]

(***************************************************************************)
(* encoding/json, as far as the Event struct uses it.                      *)
(***************************************************************************)
\* The case folding of encoding/json's key match.  A key is written as in the
\* JSON text, a character outside ASCII by its escape \uXXXX.  Every ASCII
\* capital folds to its small letter, U+017F (long s) folds to s, U+212A
\* (Kelvin sign) folds to k, and every other character folds to itself.
Capitals == "ABCDEFGHIJKLMNOPQRSTUVWXYZ"
Smalls == "abcdefghijklmnopqrstuvwxyz"
HexDigits == "0123456789abcdef"

\* the printable ASCII characters from U+0020 to U+007E, in order; U+0060,
\* which a string of this module cannot hold, is kept as its escape
Ascii ==
  " !\"#$%&'()*+,-./0123456789:;<=>?@ABCDEFGHIJKLMNOPQRSTUVWXYZ[\\]^_ abcdefghijklmnopqrstuvwxyz{|}~"

\* the folding of one ASCII character
LowerChar(c) ==
  LET at == {i \in 1..Len(Capitals) : SubSeq(Capitals, i, i) = c}
  IN  IF at = {} THEN c ELSE SubSeq(Smalls, CHOOSE i \in at : TRUE, CHOOSE i \in at : TRUE)

\* the value of a hexadecimal digit, -1 for another character
HexVal(c) ==
  LET at == {i \in 1..Len(HexDigits) : SubSeq(HexDigits, i, i) = LowerChar(c)}
  IN  IF at = {} THEN -1 ELSE (CHOOSE i \in at : TRUE) - 1

\* the text from position i on starts with an escape \uXXXX
IsUnicodeEscape(k, i) ==
  /\ i + 5 <= Len(k)
  /\ SubSeq(k, i, i + 1) = "\\u"
  /\ \A j \in (i + 2)..(i + 5) : HexVal(SubSeq(k, j, j)) >= 0

\* the code point of the escape \uXXXX at position i
CodePoint(k, i) ==
  4096 * HexVal(SubSeq(k, i + 2, i + 2)) + 256 * HexVal(SubSeq(k, i + 3, i + 3))
    + 16 * HexVal(SubSeq(k, i + 4, i + 4)) + HexVal(SubSeq(k, i + 5, i + 5))

\* the folding of the character with code point n
FoldRune(n, escape) ==
  IF n = 383 THEN "s"
  ELSE IF n = 8490 THEN "k"
  ELSE IF n >= 32 /\ n <= 126 /\ n \notin {34, 92, 96}
       THEN LowerChar(SubSeq(Ascii, n - 31, n - 31))
  ELSE "\\u" \o SubSeq(escape, 3, 3) \o SubSeq(escape, 4, 4)
             \o SubSeq(escape, 5, 5) \o SubSeq(escape, 6, 6)

RECURSIVE ToLowerFrom(_, _)
ToLowerFrom(k, i) ==
  IF i > Len(k) THEN ""
  ELSE IF IsUnicodeEscape(k, i)
       THEN FoldRune(CodePoint(k, i), SubSeq(k, i, i + 5)) \o ToLowerFrom(k, i + 6)
  ELSE IF SubSeq(k, i, i) = "\\" /\ i < Len(k)
       THEN SubSeq(k, i, i + 1) \o ToLowerFrom(k, i + 2)
  ELSE LowerChar(SubSeq(k, i, i)) \o ToLowerFrom(k, i + 1)

ToLower(k) == ToLowerFrom(k, 1)

\* index in EventFields of the field a key decodes into, 0 if none:
\* an exact match of the tag, else a case-insensitive one
FieldIndex(key) ==
  LET exact == {i \in 1..Len(EventFields) : EventFields[i].tag = key}
      fold == {i \in 1..Len(EventFields) : EventFields[i].tag = ToLower(key)}
  IN  IF exact # {} THEN CHOOSE i \in exact : TRUE
      ELSE IF fold # {} THEN CHOOSE i \in fold : TRUE
      ELSE 0

\* the Go value a JSON value of the field's type decodes to
GoValue(v) == IF v.t = "bool" THEN v.b ELSE v.s

\* decoding the members of an object from position i on into the struct d.ev;
\* a value of the wrong type is skipped and the first such error is kept
RECURSIVE DecodeMembers(_, _, _)
DecodeMembers(ms, i, d) ==
  IF i > Len(ms) THEN d
  ELSE LET k == FieldIndex(ms[i].key)
           v == ms[i].val
       IN  IF k = 0 \/ v.t = "null" THEN DecodeMembers(ms, i + 1, d)
           ELSE IF v.t = EventFields[k].type
                THEN DecodeMembers(ms, i + 1,
                       [d EXCEPT !.ev = [@ EXCEPT ![EventFields[k].name] = GoValue(v)]])
                ELSE DecodeMembers(ms, i + 1,
                       [d EXCEPT !.err = IF @.nil
                                         THEN NewError("json: cannot unmarshal " \o v.t
                                                \o " into Go value of type " \o EventFields[k].type)
                                         ELSE @])

\* json.Unmarshal(body, &ev): the fields present in the document overlay the
\* struct, absent fields keep their value
Unmarshal(body, e) ==
  CASE body.kind = "object" -> DecodeMembers(body.members, 1, [ev |-> e, err |-> Nil])
    [] body.kind = "null" -> [ev |-> e, err |-> Nil]
    [] body.kind = "malformed" -> [ev |-> e, err |-> NewError("invalid character")]
    [] OTHER -> [ev |-> e, err |-> NewError("json: cannot unmarshal " \o body.kind
                                              \o " into Go value of type main.Event")]

JValue(e, f) == IF f.type = "bool" THEN JBool(e[f.name]) ELSE JStr(e[f.name])

\* the encoding without omitempty: every field is written
RECURSIVE EncodeFieldsNoOmit(_, _)
EncodeFieldsNoOmit(e, i) ==
  IF i > Len(EventFields) THEN << >>
  ELSE << [key |-> EventFields[i].tag, val |-> JValue(e, EventFields[i])] >>
         \o EncodeFieldsNoOmit(e, i + 1)

RECURSIVE EncodeFields(_, _)
EncodeFields(e, i) ==
  IF i > Len(EventFields) THEN << >>
  ELSE LET f == EventFields[i]
       IN  IF f.omitempty /\ e[f.name] = ""
           THEN EncodeFields(e, i + 1)
           ELSE << [key |-> f.tag, val |-> JValue(e, f)] >> \o EncodeFields(e, i + 1)

\* json.Marshal(ev): the exported fields in declaration order, the omitempty
\* ones left out when empty.  A struct of strings and a bool cannot fail to
\* encode, so the error is always nil.
Marshal(e) == [data |-> JObject(EncodeFields(e, 1)), err |-> Nil]

(***************************************************************************)
(* strings.Split(s, ".")                                                   *)
(***************************************************************************)
RECURSIVE SplitFrom(_, _, _)
SplitFrom(s, start, i) ==
  IF i > Len(s) THEN << SubSeq(s, start, Len(s)) >>
  ELSE IF SubSeq(s, i, i) = "."
       THEN << SubSeq(s, start, i - 1) >> \o SplitFrom(s, i + 1, i + 1)
       ELSE SplitFrom(s, start, i + 1)

\* the subject taken as one segment
SplitWhole(s) == << s >>

\* strings.Split(m.Subject, ".")
Split(s) == SplitFrom(s, 1, 1)

(***************************************************************************)
(* Event.Validate                                                          *)
(***************************************************************************)
\* Validate with the subnet-identifier check on the create subject
ValidateDeleteOnCreate(e) ==
  IF e.VPCID = "" THEN ErrDatacenterIDInvalid
  ELSE IF e.DatacenterRegion = "" THEN ErrDatacenterRegionInvalid
  ELSE IF e.DatacenterAccessKey = "" \/ e.DatacenterAccessToken = ""
       THEN ErrDatacenterCredentialsInvalid
  ELSE IF e.subject = "network.create.aws"
       THEN (IF e.NetworkAWSID = "" THEN ErrNetworkAWSIDInvalid ELSE Nil)
       ELSE (IF e.Subnet = "" THEN ErrNetworkSubnetInvalid ELSE Nil)

\* Validate with the CIDR check for every subject, delete included
ValidateRangeOnly(e) ==
  IF e.VPCID = "" THEN ErrDatacenterIDInvalid
  ELSE IF e.DatacenterRegion = "" THEN ErrDatacenterRegionInvalid
  ELSE IF e.DatacenterAccessKey = "" \/ e.DatacenterAccessToken = ""
       THEN ErrDatacenterCredentialsInvalid
  ELSE IF e.Subnet = "" THEN ErrNetworkSubnetInvalid ELSE Nil

\* Validate with the credentials check moved in front of the region check
ValidateCredentialsFirst(e) ==
  IF e.VPCID = "" THEN ErrDatacenterIDInvalid
  ELSE IF e.DatacenterAccessKey = "" \/ e.DatacenterAccessToken = ""
       THEN ErrDatacenterCredentialsInvalid
  ELSE IF e.DatacenterRegion = "" THEN ErrDatacenterRegionInvalid
  ELSE IF e.subject = "network.delete.aws"
       THEN (IF e.NetworkAWSID = "" THEN ErrNetworkAWSIDInvalid ELSE Nil)
       ELSE (IF e.Subnet = "" THEN ErrNetworkSubnetInvalid ELSE Nil)

Validate(e) ==
  IF e.VPCID = "" THEN ErrDatacenterIDInvalid
  ELSE IF e.DatacenterRegion = "" THEN ErrDatacenterRegionInvalid
  ELSE IF e.DatacenterAccessKey = "" \/ e.DatacenterAccessToken = ""
       THEN ErrDatacenterCredentialsInvalid
  ELSE IF e.subject = "network.delete.aws"
       THEN (IF e.NetworkAWSID = "" THEN ErrNetworkAWSIDInvalid ELSE Nil)
       ELSE (IF e.Subnet = "" THEN ErrNetworkSubnetInvalid ELSE Nil)

(***************************************************************************)
(* Inputs.  The subjects main subscribes to, and the subjects the handler  *)
(* is driven with when it is exercised directly; the payloads are built    *)
(* the way the tests build them, by encoding a variation of testEvent, or  *)
(* are documents written by hand.                                          *)
(***************************************************************************)
events == {"network.create.aws", "network.delete.aws"}

AnySubjects ==
  events \cup {"network.update.aws", "network.get.aws", "network.sync.aws", "subnet.delete.aws"}

testEvent ==
  [Event EXCEPT !.UUID = "test", !.BatchID = "test", !.ProviderType = "aws",
                !.DatacenterRegion = "eu-west-1", !.DatacenterAccessKey = "key",
                !.DatacenterAccessToken = "token", !.VPCID = "vpc-0000000",
                !.NetworkAWSID = "subnet-00000000", !.Subnet = "10.0.0.0/16"]

\* every combination of empty and non-empty validated fields, of the public
\* flag and of a left-over error_message
FieldVariations ==
  { [testEvent EXCEPT !.VPCID = v, !.DatacenterRegion = g, !.DatacenterAccessKey = k,
                      !.DatacenterAccessToken = t, !.NetworkAWSID = n, !.Subnet = c,
                      !.IsPublic = p, !.ErrorMessage = m] :
      v \in {"", "vpc-0000000"}, g \in {"", "eu-west-1"}, k \in {"", "key"},
      t \in {"", "token"}, n \in {"", "subnet-00000000"}, c \in {"", "10.0.0.0/16"},
      p \in BOOLEAN, m \in {"", "previous failure"} }

\* the document the tests expect for testEvent, written out
expected ==
  JObject(<< [key |-> "_uuid", val |-> JStr("test")],
             [key |-> "_batch_id", val |-> JStr("test")],
             [key |-> "_type", val |-> JStr("aws")],
             [key |-> "datacenter_region", val |-> JStr("eu-west-1")],
             [key |-> "datacenter_secret", val |-> JStr("key")],
             [key |-> "datacenter_token", val |-> JStr("token")],
             [key |-> "vpc_id", val |-> JStr("vpc-0000000")],
             [key |-> "network_aws_id", val |-> JStr("subnet-00000000")],
             [key |-> "name", val |-> JStr("")],
             [key |-> "range", val |-> JStr("10.0.0.0/16")],
             [key |-> "is_public", val |-> JBool(FALSE)],
             [key |-> "availability_zone", val |-> JStr("")] >>)

HandWritten ==
  { expected,
    JRaw("malformed", "not json"),
    JRaw("malformed", "{\"vpc_id\":"),
    JRaw("array", "[]"),
    JRaw("null", "null"),
    JObject(<< [key |-> "vpc_id", val |-> JNum("5")] >>),
    JObject(<< [key |-> "vpc_id", val |-> JStr("vpc-0000000")],
               [key |-> "datacenter_region", val |-> JStr("eu-west-1")],
               [key |-> "datacenter_\\u017fecret", val |-> JStr("key")],
               [key |-> "datacenter_to\\u212Aen", val |-> JStr("token")],
               [key |-> "range", val |-> JStr("10.0.0.0/16")] >>),
    JObject(<< [key |-> "NAME", val |-> JStr("n")],
               [key |-> "Is_Public", val |-> JBool(TRUE)],
               [key |-> "Vpc_Id", val |-> JStr("vpc-0000000")],
               [key |-> "RANGE", val |-> JStr("10.0.0.0/16")] >>),
    JObject(<< [key |-> "is_public", val |-> JStr("yes")],
               [key |-> "vpc_id", val |-> JStr("vpc-0000000")] >>),
    JObject(<< [key |-> "VPC_ID", val |-> JStr("vpc-0000000")],
               [key |-> "datacenter_region", val |-> JStr("eu-west-1")],
               [key |-> "datacenter_secret", val |-> JStr("key")],
               [key |-> "datacenter_token", val |-> JStr("token")],
               [key |-> "Range", val |-> JStr("10.0.0.0/16")],
               [key |-> "range", val |-> JStr("10.1.0.0/16")],
               [key |-> "network_aws_id", val |-> JStr("subnet-00000000")],
               [key |-> "availability_zone", val |-> JStr("eu-west-1b")],
               [key |-> "name", val |-> JNull],
               [key |-> "comment", val |-> JStr("ignored")] >>) }

\* a public create in a second VPC
otherVPCEvent == [testEvent EXCEPT !.VPCID = "vpc-1111111", !.IsPublic = TRUE]

\* testEvent as a request of another account: another VPC, region and keys
otherAccountEvent ==
  [otherVPCEvent EXCEPT !.UUID = "other", !.DatacenterRegion = "us-east-1",
                        !.DatacenterAccessKey = "key-2", !.DatacenterAccessToken = "token-2"]

AllBodies ==
  { Marshal(e).data : e \in FieldVariations } \cup HandWritten \cup { Marshal(otherVPCEvent).data }

\* the payloads of the concurrent runs
Bodies ==
  { Marshal(testEvent).data,
    Marshal([testEvent EXCEPT !.IsPublic = TRUE]).data,
    Marshal([testEvent EXCEPT !.VPCID = ""]).data,
    JRaw("malformed", "not json") }

\* subnets a delete request of the model can name
SubnetIds == {"subnet-00000000"}

\* zones the provider places a subnet in when the request names none
Zones == {"eu-west-1a"}

(***************************************************************************)
(* State.                                                                  *)
(***************************************************************************)
VARIABLES
  pc,       \* per request: "idle", the EC2 call the handler is about to make, "done", "panic"
  msg,      \* per request: the nats.Msg delivered
  ev,       \* per request: the handler's Event n
  svc,      \* per request: the EC2 client's region and credentials
  resp,     \* per request: the CreateSubnet output held by Create
  gateway,  \* per request: the internet gateway id held by Create
  rt,       \* per request: the route table id held by Create
  calls,    \* per request: the EC2 calls made so far, with their outcome
  pubs,     \* per request: the messages published so far
  igws,     \* EC2: internet gateways attached to a VPC
  rtbs,     \* EC2: route tables associated with a subnet
  enis      \* EC2: number of network interfaces in each subnet

vars == << pc, msg, ev, svc, resp, gateway, rt, calls, pubs, igws, rtbs, enis >>

local == << msg, svc, resp, gateway, rt >>
cloud == << igws, rtbs, enis >>

NoMsg == [Subject |-> "", Data |-> JRaw("malformed", "")]
NoSvc == [Region |-> "", AccessKey |-> "", AccessToken |-> ""]
NoSubnet == [SubnetId |-> "", AvailabilityZone |-> ""]

Init ==
  /\ pc = [r \in Requests |-> "idle"]
  /\ msg = [r \in Requests |-> NoMsg]
  /\ ev = [r \in Requests |-> Event]
  /\ svc = [r \in Requests |-> NoSvc]
  /\ resp = [r \in Requests |-> NoSubnet]
  /\ gateway = [r \in Requests |-> ""]
  /\ rt = [r \in Requests |-> ""]
  /\ calls = [r \in Requests |-> << >>]
  /\ pubs = [r \in Requests |-> << >>]
  /\ igws \in { {}, {[id |-> "igw-0", vpc |-> "vpc-0000000"]} }
  /\ rtbs = {}
  /\ enis \in [SubnetIds -> 0..MaxEni]

(***************************************************************************)
(* Event.Process, Event.Error, Event.Complete.  Each returns the event as  *)
(* the method leaves it and the messages it publishes.                     *)
(***************************************************************************)
Publication(subject, data) == [subject |-> subject, data |-> data]

\* Process publishing the raw payload but reporting no error to its caller
ProcessReturnsNil(e) ==
  LET u == Unmarshal(e.body, e)
  IN  [ev |-> u.ev, err |-> Nil,
       pubs |-> IF ~u.err.nil THEN << Publication(e.subject \o ".error", e.body) >> ELSE << >>]

Process(e) ==
  LET u == Unmarshal(e.body, e)
  IN  [ev |-> u.ev, err |-> u.err,
       pubs |-> IF ~u.err.nil THEN << Publication(e.subject \o ".error", e.body) >> ELSE << >>]

\* Error storing the error's text behind a prefix of its own
ErrorWrapped(e, err) ==
  LET e2 == [e EXCEPT !.ErrorMessage = "network: " \o err.msg]
  IN  [ev |-> e2, pubs |-> << Publication(e2.subject \o ".error", Marshal(e2).data) >>]

\* Error publishing the event without storing the error's text in it
ErrorWithoutMessage(e, err) ==
  [ev |-> e, pubs |-> << Publication(e.subject \o ".error", Marshal(e).data) >>]

Error(e, err) ==
  LET e2 == [e EXCEPT !.ErrorMessage = err.msg]
  IN  [ev |-> e2, pubs |-> << Publication(e2.subject \o ".error", Marshal(e2).data) >>]

Complete(e) ==
  LET m == Marshal(e)
      failed == IF ~m.err.nil THEN Error(e, m.err) ELSE [ev |-> e, pubs |-> << >>]
  IN  [ev |-> failed.ev,
       pubs |-> failed.pubs \o << Publication(e.subject \o ".done", m.data) >>]

\* Update as an operation that succeeds
UpdateSucceeds(e) == Nil

Update(e) == NewError(e.subject \o " not supported")
Get(e) == NewError(e.subject \o " not supported")

(***************************************************************************)
(* The EC2 calls.  Every call may fail with the provider's error; the      *)
(* record of a call keeps the client it was made with, its input, its      *)
(* error and the identifiers it returned.                                  *)
(***************************************************************************)
AWSError(op) == NewError("RequestError: " \o op \o " failed")

\* every call made with the client the first handler built
CallSharedClient(r, op) ==
  [op |-> op, Region |-> svc[1].Region, AccessKey |-> svc[1].AccessKey,
   AccessToken |-> svc[1].AccessToken,
   VpcId |-> "", SubnetId |-> "", CidrBlock |-> "", AvailabilityZone |-> "",
   GatewayId |-> "", RouteTableId |-> "", DestinationCidrBlock |-> "",
   err |-> Nil, out |-> << >>]

Call(r, op) ==
  [op |-> op, Region |-> svc[r].Region, AccessKey |-> svc[r].AccessKey,
   AccessToken |-> svc[r].AccessToken,
   VpcId |-> "", SubnetId |-> "", CidrBlock |-> "", AvailabilityZone |-> "",
   GatewayId |-> "", RouteTableId |-> "", DestinationCidrBlock |-> "",
   err |-> Nil, out |-> << >>]

Returned(c, err, out) == [c EXCEPT !.err = err, !.out = out]

\* ec2.New(session.New(), &aws.Config{...}) in Create and Delete
NewSvc(e) ==
  [Region |-> e.DatacenterRegion, AccessKey |-> e.DatacenterAccessKey,
   AccessToken |-> e.DatacenterAccessToken]

\* identifiers the provider assigns to what request r creates
NewSubnetId(r) == "subnet-" \o ToString(r)
NewGatewayId(r) == "igw-" \o ToString(r)
NewRouteTableId(r) == "rtb-" \o ToString(r)

\* the tail of eventHandler without the return after n.Error(err)
ReplyWithoutReturn(r, e, err) ==
  LET failed == IF ~err.nil THEN Error(e, err) ELSE [ev |-> e, pubs |-> << >>]
      out == Complete(failed.ev)
  IN  /\ ev' = [ev EXCEPT ![r] = out.ev]
      /\ pubs' = [pubs EXCEPT ![r] = @ \o failed.pubs \o out.pubs]
      /\ pc' = [pc EXCEPT ![r] = "done"]

\* the tail of eventHandler: publish the error, or complete
Reply(r, e, err) ==
  LET out == IF ~err.nil THEN Error(e, err) ELSE Complete(e)
  IN  /\ ev' = [ev EXCEPT ![r] = out.ev]
      /\ pubs' = [pubs EXCEPT ![r] = @ \o out.pubs]
      /\ pc' = [pc EXCEPT ![r] = "done"]

\* the handler goes on to its next EC2 call
Goto(r, op) ==
  /\ pc' = [pc EXCEPT ![r] = op]
  /\ UNCHANGED << ev, pubs >>

Log(r, c) == calls' = [calls EXCEPT ![r] = Append(@, c)]

(***************************************************************************)
(* eventHandler up to its first EC2 call (or to its end when it makes      *)
(* none): New, Process, Validate and the dispatch on the second segment.   *)
(***************************************************************************)
\* an unrecovered panic in any goroutine ends the process
Running == \A r \in Requests : pc[r] # "panic"

\* eventHandler with a default branch that rejects an unknown action
eventHandlerDefaultFails(r, subject, data) ==
  /\ Running
  /\ pc[r] = "idle"
  /\ msg' = [msg EXCEPT ![r] = [Subject |-> subject, Data |-> data]]
  /\ LET n == New(subject, data)
         p == Process(n)
         verr == Validate(p.ev)
         parts == Split(subject)
     IN  IF ~p.err.nil
         THEN /\ ev' = [ev EXCEPT ![r] = p.ev]
              /\ pubs' = [pubs EXCEPT ![r] = @ \o p.pubs]
              /\ pc' = [pc EXCEPT ![r] = "done"]
              /\ UNCHANGED svc
         ELSE IF ~verr.nil
         THEN Reply(r, p.ev, verr) /\ UNCHANGED svc
         ELSE IF Len(parts) < 2
         THEN /\ ev' = [ev EXCEPT ![r] = p.ev]
              /\ pc' = [pc EXCEPT ![r] = "panic"]
              /\ UNCHANGED << pubs, svc >>
         ELSE CASE parts[2] = "create" ->
                     /\ ev' = [ev EXCEPT ![r] = p.ev]
                     /\ svc' = [svc EXCEPT ![r] = NewSvc(p.ev)]
                     /\ pc' = [pc EXCEPT ![r] = "CreateSubnet"]
                     /\ UNCHANGED pubs
                [] parts[2] = "update" -> Reply(r, p.ev, Update(p.ev)) /\ UNCHANGED svc
                [] parts[2] = "delete" ->
                     /\ ev' = [ev EXCEPT ![r] = p.ev]
                     /\ svc' = [svc EXCEPT ![r] = NewSvc(p.ev)]
                     /\ pc' = [pc EXCEPT ![r] = "DescribeNetworkInterfaces"]
                     /\ UNCHANGED pubs
                [] parts[2] = "get" -> Reply(r, p.ev, Get(p.ev)) /\ UNCHANGED svc
                [] OTHER -> Reply(r, p.ev, NewError(subject \o " not supported")) /\ UNCHANGED svc
  /\ UNCHANGED << resp, gateway, rt, calls, cloud >>

\* eventHandler with update dispatched to the calls of Create
eventHandlerUpdateCreates(r, subject, data) ==
  /\ Running
  /\ pc[r] = "idle"
  /\ msg' = [msg EXCEPT ![r] = [Subject |-> subject, Data |-> data]]
  /\ LET n == New(subject, data)
         p == Process(n)
         verr == Validate(p.ev)
         parts == Split(subject)
     IN  IF ~p.err.nil
         THEN /\ ev' = [ev EXCEPT ![r] = p.ev]
              /\ pubs' = [pubs EXCEPT ![r] = @ \o p.pubs]
              /\ pc' = [pc EXCEPT ![r] = "done"]
              /\ UNCHANGED svc
         ELSE IF ~verr.nil
         THEN Reply(r, p.ev, verr) /\ UNCHANGED svc
         ELSE IF Len(parts) < 2
         THEN /\ ev' = [ev EXCEPT ![r] = p.ev]
              /\ pc' = [pc EXCEPT ![r] = "panic"]
              /\ UNCHANGED << pubs, svc >>
         ELSE CASE parts[2] = "create" ->
                     /\ ev' = [ev EXCEPT ![r] = p.ev]
                     /\ svc' = [svc EXCEPT ![r] = NewSvc(p.ev)]
                     /\ pc' = [pc EXCEPT ![r] = "CreateSubnet"]
                     /\ UNCHANGED pubs
                [] parts[2] = "update" ->
                     /\ ev' = [ev EXCEPT ![r] = p.ev]
                     /\ svc' = [svc EXCEPT ![r] = NewSvc(p.ev)]
                     /\ pc' = [pc EXCEPT ![r] = "CreateSubnet"]
                     /\ UNCHANGED pubs
                [] parts[2] = "delete" ->
                     /\ ev' = [ev EXCEPT ![r] = p.ev]
                     /\ svc' = [svc EXCEPT ![r] = NewSvc(p.ev)]
                     /\ pc' = [pc EXCEPT ![r] = "DescribeNetworkInterfaces"]
                     /\ UNCHANGED pubs
                [] parts[2] = "get" -> Reply(r, p.ev, Get(p.ev)) /\ UNCHANGED svc
                [] OTHER -> Reply(r, p.ev, Nil) /\ UNCHANGED svc
  /\ UNCHANGED << resp, gateway, rt, calls, cloud >>

eventHandler(r, subject, data) ==
  /\ Running
  /\ pc[r] = "idle"
  /\ msg' = [msg EXCEPT ![r] = [Subject |-> subject, Data |-> data]]
  /\ LET n == New(subject, data)
         p == Process(n)
         verr == Validate(p.ev)
         parts == Split(subject)
     IN  IF ~p.err.nil
         THEN /\ ev' = [ev EXCEPT ![r] = p.ev]
              /\ pubs' = [pubs EXCEPT ![r] = @ \o p.pubs]
              /\ pc' = [pc EXCEPT ![r] = "done"]
              /\ UNCHANGED svc
         ELSE IF ~verr.nil
         THEN Reply(r, p.ev, verr) /\ UNCHANGED svc
         ELSE IF Len(parts) < 2
         THEN /\ ev' = [ev EXCEPT ![r] = p.ev]
              /\ pc' = [pc EXCEPT ![r] = "panic"]
              /\ UNCHANGED << pubs, svc >>
         ELSE CASE parts[2] = "create" ->
                     /\ ev' = [ev EXCEPT ![r] = p.ev]
                     /\ svc' = [svc EXCEPT ![r] = NewSvc(p.ev)]
                     /\ pc' = [pc EXCEPT ![r] = "CreateSubnet"]
                     /\ UNCHANGED pubs
                [] parts[2] = "update" -> Reply(r, p.ev, Update(p.ev)) /\ UNCHANGED svc
                [] parts[2] = "delete" ->
                     /\ ev' = [ev EXCEPT ![r] = p.ev]
                     /\ svc' = [svc EXCEPT ![r] = NewSvc(p.ev)]
                     /\ pc' = [pc EXCEPT ![r] = "DescribeNetworkInterfaces"]
                     /\ UNCHANGED pubs
                [] parts[2] = "get" -> Reply(r, p.ev, Get(p.ev)) /\ UNCHANGED svc
                [] OTHER -> Reply(r, p.ev, Nil) /\ UNCHANGED svc
  /\ UNCHANGED << resp, gateway, rt, calls, cloud >>

(***************************************************************************)
(* Event.Create                                                            *)
(***************************************************************************)
\* the lists a describe call may return for the set of matching resources
Orderings(S) ==
  { q \in [1..Cardinality(S) -> S] : \A i, j \in 1..Cardinality(S) : q[i] = q[j] => i = j }

\* the public branch taken whatever the flag says
PublicAlways(e) == TRUE

\* if ev.IsPublic
Public(e) == e.IsPublic

\* the gateway found by the query is ignored
NoGatewayAlways(found) == TRUE

\* len(resp.InternetGateways) == 0, then ig == nil in createInternetGateway
NoGateway(found) == Len(found) = 0

\* len(resp.RouteTables) == 0, then rt == nil in createRouteTable
NoRouteTable(found) == Len(found) = 0

\* only the subnet identifier is stored
StoreSubnetIdOnly(e, subnet) == [e EXCEPT !.NetworkAWSID = subnet.SubnetId]

\* the two assignments that end a successful Create
StoreSubnet(e, subnet) ==
  [e EXCEPT !.NetworkAWSID = subnet.SubnetId, !.AvailabilityZone = subnet.AvailabilityZone]

\* Create storing the result fields as soon as CreateSubnet has returned
CreateSubnetStoresEarly(r) ==
  /\ pc[r] = "CreateSubnet"
  /\ LET req == [Call(r, "CreateSubnet") EXCEPT !.VpcId = ev[r].VPCID,
                                                 !.CidrBlock = ev[r].Subnet,
                                                 !.AvailabilityZone = ev[r].AvailabilityZone]
     IN  \/ /\ Log(r, Returned(req, AWSError(req.op), << >>))
            /\ Reply(r, ev[r], AWSError(req.op))
            /\ UNCHANGED resp
         \/ \E zone \in (IF ev[r].AvailabilityZone = "" THEN Zones ELSE {ev[r].AvailabilityZone}) :
              LET subnet == [SubnetId |-> NewSubnetId(r), AvailabilityZone |-> zone]
              IN  /\ Log(r, Returned(req, Nil, << subnet.SubnetId, subnet.AvailabilityZone >>))
                  /\ resp' = [resp EXCEPT ![r] = subnet]
                  /\ IF Public(ev[r])
                     THEN /\ pc' = [pc EXCEPT ![r] = "DescribeInternetGateways"]
                          /\ ev' = [ev EXCEPT ![r] = StoreSubnet(ev[r], subnet)]
                          /\ UNCHANGED pubs
                     ELSE Reply(r, StoreSubnet(ev[r], subnet), Nil)
  /\ UNCHANGED << msg, svc, gateway, rt, cloud >>

CreateSubnet(r) ==
  /\ pc[r] = "CreateSubnet"
  /\ LET req == [Call(r, "CreateSubnet") EXCEPT !.VpcId = ev[r].VPCID,
                                                 !.CidrBlock = ev[r].Subnet,
                                                 !.AvailabilityZone = ev[r].AvailabilityZone]
     IN  \/ /\ Log(r, Returned(req, AWSError(req.op), << >>))
            /\ Reply(r, ev[r], AWSError(req.op))
            /\ UNCHANGED resp
         \/ \E zone \in (IF ev[r].AvailabilityZone = "" THEN Zones ELSE {ev[r].AvailabilityZone}) :
              LET subnet == [SubnetId |-> NewSubnetId(r), AvailabilityZone |-> zone]
              IN  /\ Log(r, Returned(req, Nil, << subnet.SubnetId, subnet.AvailabilityZone >>))
                  /\ resp' = [resp EXCEPT ![r] = subnet]
                  /\ IF Public(ev[r])
                     THEN Goto(r, "DescribeInternetGateways")
                     ELSE Reply(r, StoreSubnet(ev[r], subnet), Nil)
  /\ UNCHANGED << msg, svc, gateway, rt, cloud >>

\* the query without its filter: every attached gateway of the account
internetGatewayOfAnyVPC(vpc) == {g.id : g \in igws}

\* the query filtered on the gateway's own identifier
internetGatewayByGatewayID(vpc) == {g.id : g \in {a \in igws : a.id = vpc}}

\* the gateways the filter attachment.vpc-id selects
internetGatewayByVPCID(vpc) == {g.id : g \in {a \in igws : a.vpc = vpc}}

\* the query without its filter: every route table of the account
routingTableOfAnySubnet(subnet) == {t.id : t \in rtbs}

\* the route tables the filter association.subnet-id selects
routingTableBySubnetID(subnet) == {t.id : t \in {a \in rtbs : a.subnet = subnet}}

\* internetGatewayByVPCID, called by createInternetGateway
DescribeInternetGateways(r) ==
  /\ pc[r] = "DescribeInternetGateways"
  /\ LET req == [Call(r, "DescribeInternetGateways") EXCEPT !.VpcId = ev[r].VPCID]
         attached == internetGatewayByVPCID(req.VpcId)
     IN  \/ /\ Log(r, Returned(req, AWSError(req.op), << >>))
            /\ Reply(r, ev[r], AWSError(req.op))
            /\ UNCHANGED gateway
         \/ \E found \in Orderings(attached) :
              /\ Log(r, Returned(req, Nil, found))
              /\ IF NoGateway(found)
                 THEN Goto(r, "CreateInternetGateway") /\ UNCHANGED gateway
                 ELSE /\ gateway' = [gateway EXCEPT ![r] = found[1]]
                      /\ Goto(r, "DescribeRouteTables")
  /\ UNCHANGED << msg, svc, resp, rt, cloud >>

\* CreateInternetGateway made under a lock on the gateway of the VPC, held by
\* a handler until it has attached the gateway it created
CreateInternetGatewayLocked(r) ==
  /\ pc[r] = "CreateInternetGateway"
  /\ \A q \in Requests \ {r} : pc[q] # "AttachInternetGateway"
  /\ LET req == Call(r, "CreateInternetGateway")
     IN  \/ /\ Log(r, Returned(req, AWSError(req.op), << >>))
            /\ Reply(r, ev[r], AWSError(req.op))
            /\ UNCHANGED gateway
         \/ /\ Log(r, Returned(req, Nil, << NewGatewayId(r) >>))
            /\ gateway' = [gateway EXCEPT ![r] = NewGatewayId(r)]
            /\ Goto(r, "AttachInternetGateway")
  /\ UNCHANGED << msg, svc, resp, rt, cloud >>

CreateInternetGateway(r) ==
  /\ pc[r] = "CreateInternetGateway"
  /\ LET req == Call(r, "CreateInternetGateway")
     IN  \/ /\ Log(r, Returned(req, AWSError(req.op), << >>))
            /\ Reply(r, ev[r], AWSError(req.op))
            /\ UNCHANGED gateway
         \/ /\ Log(r, Returned(req, Nil, << NewGatewayId(r) >>))
            /\ gateway' = [gateway EXCEPT ![r] = NewGatewayId(r)]
            /\ Goto(r, "AttachInternetGateway")
  /\ UNCHANGED << msg, svc, resp, rt, cloud >>

AttachInternetGateway(r) ==
  /\ pc[r] = "AttachInternetGateway"
  /\ LET req == [Call(r, "AttachInternetGateway") EXCEPT !.GatewayId = gateway[r],
                                                          !.VpcId = ev[r].VPCID]
     IN  \/ /\ Log(r, Returned(req, AWSError(req.op), << >>))
            /\ Reply(r, ev[r], AWSError(req.op))
            /\ UNCHANGED igws
         \/ /\ Log(r, Returned(req, Nil, << >>))
            /\ igws' = igws \cup {[id |-> req.GatewayId, vpc |-> req.VpcId]}
            /\ Goto(r, "DescribeRouteTables")
  /\ UNCHANGED << msg, svc, resp, gateway, rt, rtbs, enis >>

\* routingTableBySubnetID, called by createRouteTable
DescribeRouteTables(r) ==
  /\ pc[r] = "DescribeRouteTables"
  /\ LET req == [Call(r, "DescribeRouteTables") EXCEPT !.SubnetId = resp[r].SubnetId]
         associated == routingTableBySubnetID(req.SubnetId)
     IN  \/ /\ Log(r, Returned(req, AWSError(req.op), << >>))
            /\ Reply(r, ev[r], AWSError(req.op))
            /\ UNCHANGED rt
         \/ \E found \in Orderings(associated) :
              /\ Log(r, Returned(req, Nil, found))
              /\ IF NoRouteTable(found)
                 THEN Goto(r, "CreateRouteTable") /\ UNCHANGED rt
                 ELSE /\ rt' = [rt EXCEPT ![r] = found[1]]
                      /\ Goto(r, "CreateRoute")
  /\ UNCHANGED << msg, svc, resp, gateway, cloud >>

CreateRouteTable(r) ==
  /\ pc[r] = "CreateRouteTable"
  /\ LET req == [Call(r, "CreateRouteTable") EXCEPT !.VpcId = ev[r].VPCID]
     IN  \/ /\ Log(r, Returned(req, AWSError(req.op), << >>))
            /\ Reply(r, ev[r], AWSError(req.op))
            /\ UNCHANGED rt
         \/ /\ Log(r, Returned(req, Nil, << NewRouteTableId(r) >>))
            /\ rt' = [rt EXCEPT ![r] = NewRouteTableId(r)]
            /\ Goto(r, "AssociateRouteTable")
  /\ UNCHANGED << msg, svc, resp, gateway, cloud >>

AssociateRouteTable(r) ==
  /\ pc[r] = "AssociateRouteTable"
  /\ LET req == [Call(r, "AssociateRouteTable") EXCEPT !.RouteTableId = rt[r],
                                                        !.SubnetId = resp[r].SubnetId]
     IN  \/ /\ Log(r, Returned(req, AWSError(req.op), << >>))
            /\ Reply(r, ev[r], AWSError(req.op))
            /\ UNCHANGED rtbs
         \/ /\ Log(r, Returned(req, Nil, << >>))
            /\ rtbs' = rtbs \cup {[id |-> req.RouteTableId, subnet |-> req.SubnetId]}
            /\ Goto(r, "CreateRoute")
  /\ UNCHANGED << msg, svc, resp, gateway, rt, igws, enis >>

\* createGatewayRoutes repeating a CreateRoute call that failed, once
CreateRouteRetries(r) ==
  /\ pc[r] = "CreateRoute"
  /\ LET req == [Call(r, "CreateRoute") EXCEPT !.RouteTableId = rt[r],
                                                !.DestinationCidrBlock = "0.0.0.0/0",
                                                !.GatewayId = gateway[r]]
         failed == \E i \in 1..Len(calls[r]) : calls[r][i].op = "CreateRoute"
     IN  \/ /\ Log(r, Returned(req, AWSError(req.op), << >>))
            /\ IF failed THEN Reply(r, ev[r], AWSError(req.op)) ELSE Goto(r, "CreateRoute")
         \/ /\ Log(r, Returned(req, Nil, << >>))
            /\ Goto(r, "ModifySubnetAttribute")
  /\ UNCHANGED << local, cloud >>

\* createGatewayRoutes
CreateRoute(r) ==
  /\ pc[r] = "CreateRoute"
  /\ LET req == [Call(r, "CreateRoute") EXCEPT !.RouteTableId = rt[r],
                                                !.DestinationCidrBlock = "0.0.0.0/0",
                                                !.GatewayId = gateway[r]]
     IN  \/ /\ Log(r, Returned(req, AWSError(req.op), << >>))
            /\ Reply(r, ev[r], AWSError(req.op))
         \/ /\ Log(r, Returned(req, Nil, << >>))
            /\ Goto(r, "ModifySubnetAttribute")
  /\ UNCHANGED << local, cloud >>

ModifySubnetAttribute(r) ==
  /\ pc[r] = "ModifySubnetAttribute"
  /\ LET req == [Call(r, "ModifySubnetAttribute") EXCEPT !.SubnetId = resp[r].SubnetId]
     IN  \/ /\ Log(r, Returned(req, AWSError(req.op), << >>))
            /\ Reply(r, ev[r], AWSError(req.op))
         \/ /\ Log(r, Returned(req, Nil, << >>))
            /\ Reply(r, StoreSubnet(ev[r], resp[r]), Nil)
  /\ UNCHANGED << local, cloud >>

(***************************************************************************)
(* Event.Delete                                                            *)
(***************************************************************************)
Interfaces(subnet) == IF subnet \in DOMAIN enis THEN enis[subnet] ELSE 0

\* the wait never ends, whatever the query returned
NoInterfacesNever(found) == FALSE

\* the wait ends after the first query, whatever it returned
NoInterfacesUnchecked(found) == TRUE

\* len(resp.NetworkInterfaces) == 0 ends the wait
NoInterfaces(found) == Len(found) = 0

Polls(r) == Len(SelectSeq(calls[r], LAMBDA c : c.op = "DescribeNetworkInterfaces"))

\* waitForInterfaceRemoval giving up with an error of its own at the second
\* query that still returns an interface
DescribeNetworkInterfacesGivesUp(r) ==
  /\ pc[r] = "DescribeNetworkInterfaces"
  /\ Polls(r) < MaxPolls
  /\ LET req == [Call(r, "DescribeNetworkInterfaces") EXCEPT !.SubnetId = ev[r].NetworkAWSID]
         found == [i \in 1..Interfaces(req.SubnetId) |-> "eni-" \o ToString(i)]
     IN  \/ /\ Log(r, Returned(req, AWSError(req.op), << >>))
            /\ Reply(r, ev[r], AWSError(req.op))
         \/ /\ Log(r, Returned(req, Nil, found))
            /\ IF NoInterfaces(found) THEN Goto(r, "DeleteSubnet")
               ELSE IF Polls(r) >= 1
                    THEN Reply(r, ev[r], NewError("timed out waiting for interface removal"))
                    ELSE Goto(r, "DescribeNetworkInterfaces")
  /\ UNCHANGED << local, cloud >>

\* one iteration of waitForInterfaceRemoval: getNetworkInterfaces, then
\* return or sleep a second and poll again
DescribeNetworkInterfaces(r) ==
  /\ pc[r] = "DescribeNetworkInterfaces"
  /\ Polls(r) < MaxPolls
  /\ LET req == [Call(r, "DescribeNetworkInterfaces") EXCEPT !.SubnetId = ev[r].NetworkAWSID]
         found == [i \in 1..Interfaces(req.SubnetId) |-> "eni-" \o ToString(i)]
     IN  \/ /\ Log(r, Returned(req, AWSError(req.op), << >>))
            /\ Reply(r, ev[r], AWSError(req.op))
         \/ /\ Log(r, Returned(req, Nil, found))
            /\ Goto(r, IF NoInterfaces(found) THEN "DeleteSubnet" ELSE "DescribeNetworkInterfaces")
  /\ UNCHANGED << local, cloud >>

DeleteSubnet(r) ==
  /\ pc[r] = "DeleteSubnet"
  /\ LET req == [Call(r, "DeleteSubnet") EXCEPT !.SubnetId = ev[r].NetworkAWSID]
     IN  \/ /\ Log(r, Returned(req, AWSError(req.op), << >>))
            /\ Reply(r, ev[r], AWSError(req.op))
         \/ /\ Log(r, Returned(req, Nil, << >>))
            /\ Reply(r, ev[r], Nil)
  /\ UNCHANGED << local, cloud >>

(***************************************************************************)
(* The rest of the account: interfaces come and go, and a route table may  *)
(* be associated with a subnet by someone else.                            *)
(***************************************************************************)
InterfaceDetached ==
  \E s \in SubnetIds :
    /\ enis[s] > 0
    /\ enis' = [enis EXCEPT ![s] = @ - 1]
    /\ UNCHANGED << pc, ev, pubs, calls, local, igws, rtbs >>

InterfaceAttached ==
  \E s \in SubnetIds :
    /\ enis[s] < MaxEni
    /\ enis' = [enis EXCEPT ![s] = @ + 1]
    /\ UNCHANGED << pc, ev, pubs, calls, local, igws, rtbs >>

RouteTableAssociated ==
  \E r \in Requests :
    /\ pc[r] = "DescribeRouteTables"
    /\ \A t \in rtbs : t.subnet # resp[r].SubnetId
    /\ rtbs' = rtbs \cup {[id |-> "rtb-0", subnet |-> resp[r].SubnetId]}
    /\ UNCHANGED << pc, ev, pubs, calls, local, igws, enis >>

(***************************************************************************)
(* Specifications.  Spec is the worker as main starts it: messages on the  *)
(* two subscribed subjects, handled concurrently.  SpecInputs is the       *)
(* worker handling one message of a subscribed subject with any payload.   *)
(* SpecHandler drives eventHandler with one message of any subject and any *)
(* payload.                                                                *)
(***************************************************************************)
\* request r is the r-th message the bus delivers
Deliver ==
  \E r \in Requests, s \in events, b \in Bodies :
    /\ \A q \in 1..(r - 1) : pc[q] # "idle"
    /\ eventHandler(r, s, b)

DeliverInput == \E s \in events, b \in AllBodies : eventHandler(1, s, b)

DeliverAny == \E s \in AnySubjects, b \in AllBodies : eventHandler(1, s, b)

\* the next EC2 call of Create for request r
CreateStep(r) ==
  /\ Running
  /\ \/ CreateSubnet(r)
     \/ DescribeInternetGateways(r)
     \/ CreateInternetGateway(r)
     \/ AttachInternetGateway(r)
     \/ DescribeRouteTables(r)
     \/ CreateRouteTable(r)
     \/ AssociateRouteTable(r)
     \/ CreateRoute(r)
     \/ ModifySubnetAttribute(r)

\* the next EC2 call of Delete for request r
DeleteStep(r) ==
  /\ Running
  /\ \/ DescribeNetworkInterfaces(r)
     \/ DeleteSubnet(r)

Step == \E r \in Requests : CreateStep(r) \/ DeleteStep(r)

Environment == InterfaceDetached \/ InterfaceAttached \/ RouteTableAssociated

Next == Deliver \/ Step \/ Environment

Spec == Init /\ [][Next]_vars

NextInputs == DeliverInput \/ Step \/ Environment

SpecInputs == Init /\ [][NextInputs]_vars

NextHandler == DeliverAny \/ Step \/ Environment

SpecHandler == Init /\ [][NextHandler]_vars

\* SpecFair is SpecInputs in which every EC2 call returns: a handler that can
\* make its next call eventually makes it
SpecFair ==
  /\ SpecInputs
  /\ \A r \in Requests : WF_vars(CreateStep(r)) /\ WF_vars(DeleteStep(r))

\* SpecSeq is the worker creating networks one message after the other: a
\* message on the create subject arrives when the handlers of the earlier
\* ones have returned
SeqSubjects == {"network.create.aws"}

SeqBodies ==
  { Marshal([testEvent EXCEPT !.IsPublic = TRUE]).data,
    Marshal(otherVPCEvent).data,
    Marshal([testEvent EXCEPT !.VPCID = ""]).data,
    JRaw("malformed", "not json") }

DeliverNext ==
  \E r \in Requests, s \in SeqSubjects, b \in SeqBodies :
    /\ \A q \in 1..(r - 1) : pc[q] \in {"done", "panic"}
    /\ eventHandler(r, s, b)

NextSeq == DeliverNext \/ (\E r \in Requests : CreateStep(r)) \/ RouteTableAssociated

SpecSeq == Init /\ [][NextSeq]_vars

\* SpecSeqHandler drives eventHandler directly, one call after the other
\* has returned, with create and update subjects; main registers the handler
\* for the create and delete subjects only, so the update messages are not
\* ones the worker as main starts it receives
SeqHandlerSubjects == {"network.create.aws", "network.update.aws"}

CallNext ==
  \E r \in Requests, s \in SeqHandlerSubjects, b \in SeqBodies :
    /\ \A q \in 1..(r - 1) : pc[q] \in {"done", "panic"}
    /\ eventHandler(r, s, b)

NextSeqHandler == CallNext \/ (\E r \in Requests : CreateStep(r)) \/ RouteTableAssociated

SpecSeqHandler == Init /\ [][NextSeqHandler]_vars

\* SpecRace is the worker handling public creates for one VPC concurrently
DeliverCreate ==
  \E r \in Requests :
    /\ \A q \in 1..(r - 1) : pc[q] # "idle"
    /\ eventHandler(r, "network.create.aws", Marshal([testEvent EXCEPT !.IsPublic = TRUE]).data)

NextRace == DeliverCreate \/ (\E r \in Requests : CreateStep(r))

SpecRace == Init /\ [][NextRace]_vars

\* SpecPair is the worker handling two messages concurrently, each the
\* request of one of two accounts for its own VPC
PairBodies ==
  { Marshal([testEvent EXCEPT !.IsPublic = TRUE]).data, Marshal(otherAccountEvent).data }

Pair == {1, 2}

DeliverPair ==
  \E r \in Pair, s \in events, b \in PairBodies :
    /\ \A q \in 1..(r - 1) : pc[q] # "idle"
    /\ eventHandler(r, s, b)

NextPair == DeliverPair \/ Step

SpecPair == Init /\ [][NextPair]_vars

(***************************************************************************)
(* Vocabulary of the properties, stated from the message a request         *)
(* arrived as and from what the handler did and published for it.          *)
(***************************************************************************)
\* the value of a member of a JSON object, JNull when the member is absent
JField(doc, key) ==
  LET at == {i \in 1..Len(doc.members) : doc.members[i].key = key}
  IN  IF at = {} THEN JNull
      ELSE doc.members[CHOOSE i \in at : \A j \in at : j <= i].val

\* the payload is a document of the wire schema: an object (or null) whose
\* members for the fields of the schema have the type of the field
WellFormed(doc) ==
  /\ doc.kind \in {"object", "null"}
  /\ \A i \in 1..Len(doc.members) :
       LET k == FieldIndex(doc.members[i].key)
       IN  k # 0 => doc.members[i].val.t \in {"null", EventFields[k].type}

\* the fields of request r as its payload gives them
Request(r) == Unmarshal(msg[r].Data, New(msg[r].Subject, msg[r].Data)).ev

\* the action of request r: the second dot-segment of its subject
Action(r) == Split(msg[r].Subject)[2]

\* the four checks of a request in their order
Checks(e, action) ==
  << [failed |-> e.VPCID = "", text |-> "Datacenter VPC ID invalid"],
     [failed |-> e.DatacenterRegion = "", text |-> "Datacenter Region invalid"],
     [failed |-> ~(e.DatacenterAccessKey # "" /\ e.DatacenterAccessToken # ""),
      text |-> "Datacenter credentials invalid"],
     IF action = "delete"
     THEN [failed |-> e.NetworkAWSID = "", text |-> "Network aws id invalid"]
     ELSE [failed |-> e.Subnet = "", text |-> "Network subnet invalid"] >>

\* the text of the first failing check, "" when every check passes
FirstFailure(e, action) ==
  LET cs == Checks(e, action)
      F == {i \in 1..Len(cs) : cs[i].failed}
  IN  IF F = {} THEN "" ELSE cs[CHOOSE i \in F : \A j \in F : i <= j].text

ValidationTexts ==
  { "Datacenter VPC ID invalid", "Datacenter Region invalid", "Datacenter credentials invalid",
    "Network aws id invalid", "Network subnet invalid" }

Ops(r) == [i \in 1..Len(calls[r]) |-> calls[r][i].op]

Delivered(r) == pc[r] # "idle"

PublishedOn(r, suffix) ==
  /\ Len(pubs[r]) = 1
  /\ pubs[r][1].subject = msg[r].Subject \o suffix

(***************************************************************************)
(* C1: every delivered message leads to exactly one publication: none      *)
(* while the handler runs, and once it has returned one message, on        *)
(* <subject>.done or on <subject>.error, never two.                        *)
(***************************************************************************)
C1_ExactlyOnePublication ==
  \A r \in Requests :
    /\ Len(pubs[r]) <= 1
    /\ (pc[r] = "done") <=> (Len(pubs[r]) = 1)
    /\ \A i \in 1..Len(pubs[r]) :
         pubs[r][i].subject \in {msg[r].Subject \o ".done", msg[r].Subject \o ".error"}

C1_Witness ==
  \E r \in Requests :
    /\ pc[r] = "done" /\ Len(calls[r]) >= 7
    /\ pubs[r] = << Publication("network.create.aws.done", Marshal(ev[r]).data) >>

(***************************************************************************)
(* C2: Validate returns the error of the first failing check in the order  *)
(* VPC id, region, credentials, then subnet identifier (delete) or CIDR    *)
(* range (otherwise), and nil only when every check passes; the text the   *)
(* handler stores is that error's.                                         *)
(***************************************************************************)
C2_ValidateFirstFailure ==
  \A r \in Requests :
    Delivered(r) /\ WellFormed(msg[r].Data) =>
      LET first == FirstFailure(Request(r), Action(r))
          verr == Validate(Request(r))
      IN  /\ verr.nil <=> first = ""
          /\ ~verr.nil => verr.msg = first
          /\ first # "" => ev[r].ErrorMessage = first
          /\ first = "" /\ Request(r).ErrorMessage \notin ValidationTexts
               => ev[r].ErrorMessage \notin ValidationTexts

C2_Witness ==
  \E r \in Requests :
    /\ pc[r] = "done"
    /\ Action(r) = "delete"
    /\ Request(r).VPCID # "" /\ Request(r).DatacenterRegion # ""
    /\ Request(r).DatacenterAccessKey # "" /\ Request(r).DatacenterAccessToken = ""
    /\ Request(r).NetworkAWSID = "" /\ Request(r).Subnet = ""
    /\ ev[r].ErrorMessage = "Datacenter credentials invalid"

(***************************************************************************)
(* C3: a request that fails validation makes no EC2 call (it does not even *)
(* build a client) and is published once, on <subject>.error, with the     *)
(* validation error's text as error_message.                               *)
(***************************************************************************)
C3_InvalidRequestNoCall ==
  \A r \in Requests :
    Delivered(r) /\ WellFormed(msg[r].Data) /\ FirstFailure(Request(r), Action(r)) # "" =>
      /\ pc[r] = "done"
      /\ calls[r] = << >>
      /\ svc[r] = NoSvc
      /\ PublishedOn(r, ".error")
      /\ pubs[r][1].data.kind = "object"
      /\ JField(pubs[r][1].data, "error_message")
           = JStr(FirstFailure(Request(r), Action(r)))

C3_Witness ==
  \E r \in Requests :
    /\ pc[r] = "done"
    /\ msg[r].Subject = "network.create.aws"
    /\ WellFormed(msg[r].Data)
    /\ Request(r).VPCID = ""
    /\ PublishedOn(r, ".error")
    /\ JField(pubs[r][1].data, "error_message") = JStr("Datacenter VPC ID invalid")

(***************************************************************************)
(* C4: DeleteSubnet is called only directly after a                        *)
(* DescribeNetworkInterfaces query for the same subnet that succeeded and  *)
(* returned no interface; it is the last call of the request, so it is     *)
(* made at most once and no query follows it; a delete request published   *)
(* on .done made it exactly once.                                          *)
(***************************************************************************)
C4_DeleteOnlyAfterEmptyQuery ==
  \A r \in Requests :
    /\ \A i \in 1..Len(calls[r]) :
         calls[r][i].op = "DeleteSubnet" =>
           /\ i = Len(calls[r])
           /\ i > 1
           /\ calls[r][i - 1].op = "DescribeNetworkInterfaces"
           /\ calls[r][i - 1].err.nil
           /\ calls[r][i - 1].out = << >>
           /\ calls[r][i - 1].SubnetId = calls[r][i].SubnetId
           /\ calls[r][i].SubnetId = Request(r).NetworkAWSID
    /\ Delivered(r) /\ Action(r) = "delete" /\ PublishedOn(r, ".done") =>
         Cardinality({i \in 1..Len(calls[r]) : calls[r][i].op = "DeleteSubnet"}) = 1

C4_Witness ==
  \E r \in Requests :
    /\ pc[r] = "done"
    /\ Len(calls[r]) = 3
    /\ calls[r][1].op = "DescribeNetworkInterfaces" /\ Len(calls[r][1].out) > 0
    /\ calls[r][2].op = "DescribeNetworkInterfaces" /\ calls[r][2].out = << >>
    /\ calls[r][3].op = "DeleteSubnet" /\ calls[r][3].err.nil
    /\ PublishedOn(r, ".done")

\* the calls of a successful public create, given what the two queries found
PublicCreateOrder(gatewayFound, tableFound) ==
  << "CreateSubnet", "DescribeInternetGateways" >>
    \o (IF gatewayFound THEN << >> ELSE << "CreateInternetGateway", "AttachInternetGateway" >>)
    \o << "DescribeRouteTables" >>
    \o (IF tableFound THEN << >> ELSE << "CreateRouteTable", "AssociateRouteTable" >>)
    \o << "CreateRoute", "ModifySubnetAttribute" >>

(***************************************************************************)
(* C5: a public create published on .done made exactly the calls           *)
(* CreateSubnet, DescribeInternetGateways (for the request's VPC),         *)
(* CreateInternetGateway and AttachInternetGateway if and only if that     *)
(* query returned none, DescribeRouteTables (for the new subnet),          *)
(* CreateRouteTable and AssociateRouteTable if and only if that query      *)
(* returned none, CreateRoute, ModifySubnetAttribute, in this order.       *)
(***************************************************************************)
C5_PublicCreateOrder ==
  \A r \in Requests :
    Delivered(r) /\ Action(r) = "create" /\ Request(r).IsPublic /\ PublishedOn(r, ".done") =>
      /\ Len(calls[r]) >= 5
      /\ calls[r][2].VpcId = Request(r).VPCID
      /\ LET gatewayFound == Len(calls[r][2].out) > 0
             t == IF gatewayFound THEN 3 ELSE 5
         IN  /\ calls[r][t].SubnetId = calls[r][1].out[1]
             /\ Ops(r) = PublicCreateOrder(gatewayFound, Len(calls[r][t].out) > 0)
      /\ \A i \in 1..Len(calls[r]) : calls[r][i].err.nil

C5_Witness ==
  \E r \in Requests :
    /\ pc[r] = "done" /\ PublishedOn(r, ".done")
    /\ Ops(r) = PublicCreateOrder(FALSE, FALSE)

C5_WitnessReuse ==
  \E r \in Requests :
    /\ pc[r] = "done" /\ PublishedOn(r, ".done")
    /\ Ops(r) = PublicCreateOrder(TRUE, TRUE)

(***************************************************************************)
(* C6: a valid create that is not public makes one EC2 call, CreateSubnet, *)
(* and no other, whether that call succeeds or fails.                      *)
(***************************************************************************)
C6_PrivateCreateOneCall ==
  \A r \in Requests :
    Delivered(r) /\ Action(r) = "create" /\ WellFormed(msg[r].Data)
      /\ FirstFailure(Request(r), "create") = "" /\ ~Request(r).IsPublic =>
        \/ pc[r] = "CreateSubnet" /\ calls[r] = << >>
        \/ pc[r] = "done" /\ Ops(r) = << "CreateSubnet" >>

C6_Witness ==
  \E r \in Requests :
    /\ pc[r] = "done" /\ Ops(r) = << "CreateSubnet" >> /\ PublishedOn(r, ".error")
    /\ Action(r) = "create" /\ ~Request(r).IsPublic
    /\ ~calls[r][1].err.nil

(***************************************************************************)
(* C7 as stated: an update or get request whose payload decodes is         *)
(* published on <subject>.error with the error_message                     *)
(* "<subject> not supported", whatever its fields hold.                    *)
(***************************************************************************)
C7_AlwaysNotSupported ==
  \A r \in Requests :
    Delivered(r) /\ WellFormed(msg[r].Data) /\ Action(r) \in {"update", "get"} =>
      /\ PublishedOn(r, ".error")
      /\ JField(pubs[r][1].data, "error_message") = JStr(msg[r].Subject \o " not supported")

(***************************************************************************)
(* C7 amended: an update or get request whose payload decodes is published *)
(* once, on <subject>.error, after no EC2 call; its error_message is       *)
(* "<subject> not supported" when the request passes validation and the    *)
(* text of the first failing check when it does not.                       *)
(***************************************************************************)
C7_NotSupportedWhenValid ==
  \A r \in Requests :
    Delivered(r) /\ WellFormed(msg[r].Data) /\ Action(r) \in {"update", "get"} =>
      LET first == FirstFailure(Request(r), Action(r))
      IN  /\ pc[r] = "done"
          /\ PublishedOn(r, ".error")
          /\ JField(pubs[r][1].data, "error_message")
               = JStr(IF first = "" THEN msg[r].Subject \o " not supported" ELSE first)

C7_Witness ==
  \E r \in Requests :
    /\ pc[r] = "done"
    /\ msg[r].Subject = "network.update.aws"
    /\ FirstFailure(Request(r), "update") = ""
    /\ PublishedOn(r, ".error")
    /\ JField(pubs[r][1].data, "error_message") = JStr("network.update.aws not supported")

(***************************************************************************)
(* C8: a payload that does not decode is published unchanged on            *)
(* <subject>.error and that is all: the handler has returned, one message  *)
(* was published, no EC2 client was built and no EC2 call was made.        *)
(***************************************************************************)
C8_UndecodableRepublished ==
  \A r \in Requests :
    Delivered(r) /\ ~WellFormed(msg[r].Data) =>
      /\ pc[r] = "done"
      /\ pubs[r] = << Publication(msg[r].Subject \o ".error", msg[r].Data) >>
      /\ calls[r] = << >>
      /\ svc[r] = NoSvc

C8_Witness ==
  \E r \in Requests :
    /\ pc[r] = "done"
    /\ msg[r].Data = JRaw("malformed", "{\"vpc_id\":")
    /\ pubs[r] = << Publication(msg[r].Subject \o ".error", msg[r].Data) >>

(***************************************************************************)
(* C9: a message published on <subject>.done carries no error_message, or  *)
(* an empty one.                                                           *)
(***************************************************************************)
C9_DoneHasNoErrorMessage ==
  \A r \in Requests :
    \A i \in 1..Len(pubs[r]) :
      pubs[r][i].subject = msg[r].Subject \o ".done" =>
        JField(pubs[r][i].data, "error_message") \in {JNull, JStr("")}

(***************************************************************************)
(* C10: the envelope a create publishes on .done has network_aws_id and    *)
(* availability_zone as CreateSubnet returned them, and every other field  *)
(* of the wire schema as the request gave it.                              *)
(***************************************************************************)
C10_DoneCarriesSubnet ==
  \A r \in Requests :
    Delivered(r) /\ Action(r) = "create" /\ PublishedOn(r, ".done") =>
      /\ Len(calls[r]) >= 1
      /\ calls[r][1].op = "CreateSubnet"
      /\ JField(pubs[r][1].data, "network_aws_id") = JStr(calls[r][1].out[1])
      /\ JField(pubs[r][1].data, "availability_zone") = JStr(calls[r][1].out[2])
      /\ \A i \in 1..Len(EventFields) :
           LET f == EventFields[i]
           IN  f.tag \notin {"network_aws_id", "availability_zone"} =>
                 JField(pubs[r][1].data, f.tag)
                   = IF f.omitempty /\ Request(r)[f.name] = "" THEN JNull
                     ELSE JValue(Request(r), f)
      /\ Len(pubs[r][1].data.members)
           = Cardinality({i \in 1..Len(EventFields) :
                            JField(pubs[r][1].data, EventFields[i].tag) # JNull})

C10_Witness ==
  \E r \in Requests :
    /\ pc[r] = "done" /\ Action(r) = "create" /\ PublishedOn(r, ".done")
    /\ Request(r).AvailabilityZone = "" /\ Request(r).NetworkAWSID # calls[r][1].out[1]
    /\ JField(pubs[r][1].data, "availability_zone") = JStr("eu-west-1a")
    /\ JField(pubs[r][1].data, "network_aws_id") = JStr(calls[r][1].out[1])

(***************************************************************************)
(* C11: decoding a payload of the wire schema and encoding the event       *)
(* unchanged gives the payload back, member for member: same names, same   *)
(* order, same values, network_aws_id and error_message left out exactly   *)
(* when empty.  A delete published on .done carries its payload unchanged. *)
(***************************************************************************)
\* the wire schema: the members of a payload in their order
WireSchema ==
  << [tag |-> "_uuid", type |-> "string", optional |-> FALSE],
     [tag |-> "_batch_id", type |-> "string", optional |-> FALSE],
     [tag |-> "_type", type |-> "string", optional |-> FALSE],
     [tag |-> "datacenter_region", type |-> "string", optional |-> FALSE],
     [tag |-> "datacenter_secret", type |-> "string", optional |-> FALSE],
     [tag |-> "datacenter_token", type |-> "string", optional |-> FALSE],
     [tag |-> "vpc_id", type |-> "string", optional |-> FALSE],
     [tag |-> "network_aws_id", type |-> "string", optional |-> TRUE],
     [tag |-> "name", type |-> "string", optional |-> FALSE],
     [tag |-> "range", type |-> "string", optional |-> FALSE],
     [tag |-> "is_public", type |-> "bool", optional |-> FALSE],
     [tag |-> "availability_zone", type |-> "string", optional |-> FALSE],
     [tag |-> "error_message", type |-> "string", optional |-> TRUE] >>

\* the payload has the members of the wire schema, in its order, the two
\* optional ones present exactly when they are not empty
InWireSchema(doc) ==
  /\ doc.kind = "object"
  /\ LET present == SelectSeq(WireSchema,
                      LAMBDA f : ~f.optional \/ JField(doc, f.tag) \notin {JNull, JStr("")})
     IN  /\ Len(doc.members) = Len(present)
         /\ \A i \in 1..Len(present) :
              /\ doc.members[i].key = present[i].tag
              /\ doc.members[i].val.t = present[i].type

C11_RoundTrip ==
  \A r \in Requests :
    Delivered(r) /\ InWireSchema(msg[r].Data) =>
      /\ Marshal(Unmarshal(msg[r].Data, New(msg[r].Subject, msg[r].Data)).ev).data = msg[r].Data
      /\ msg[r].Subject = "network.delete.aws" /\ PublishedOn(r, ".done") =>
           pubs[r][1].data = msg[r].Data

C11_Witness ==
  \E r \in Requests :
    /\ pc[r] = "done"
    /\ msg[r].Subject = "network.delete.aws"
    /\ msg[r].Data = expected
    /\ pubs[r] = << Publication("network.delete.aws.done", expected) >>

(***************************************************************************)
(* C12: a failed request never stops the worker.  Once a request has ended *)
(* on <subject>.error (payload not decoded, validation failed, operation   *)
(* not supported, or an EC2 call failed), the process is still running,    *)
(* so that it takes the messages delivered next; of these, a handler that  *)
(* has not returned can always make its next step, and a handler that has  *)
(* returned has published exactly one outcome.                             *)
(***************************************************************************)
Failed(q) == pc[q] = "done" /\ PublishedOn(q, ".error")

C12_FailureDoesNotStopWorker ==
  (\E q \in Requests : Failed(q)) =>
    /\ Running
    /\ \A r \in Requests :
         (\E q \in 1..(r - 1) : Failed(q)) =>
           /\ pc[r] \notin {"idle", "done"} => ENABLED CreateStep(r)
           /\ pc[r] = "done" =>
                /\ Len(pubs[r]) = 1
                /\ pubs[r][1].subject \in {msg[r].Subject \o ".done", msg[r].Subject \o ".error"}

C12_Witness ==
  \E q, r \in Requests :
    /\ q < r
    /\ Failed(q) /\ Len(calls[q]) > 0 /\ ~calls[q][Len(calls[q])].err.nil
    /\ pc[r] = "done" /\ PublishedOn(r, ".done") /\ Len(calls[r]) >= 7

(***************************************************************************)
(* C13: concurrent public creates for one VPC race on the gateway.  A      *)
(* handler whose describe-gateways call returned no gateway goes on to     *)
(* create-gateway and attach-gateway without looking again, and it can     *)
(* always make these calls whatever the other handlers are doing: nothing  *)
(* in the worker holds it back.  The witness is the interleaving in which  *)
(* two requests both saw no gateway and both created and attached one.     *)
(***************************************************************************)
SawNoGateway(r) ==
  \E i \in 1..Len(calls[r]) :
    /\ calls[r][i].op = "DescribeInternetGateways"
    /\ calls[r][i].err.nil
    /\ calls[r][i].out = << >>

Succeeded(r, op) == \E i \in 1..Len(calls[r]) : calls[r][i].op = op /\ calls[r][i].err.nil

C13_NoGatewayLock ==
  \A r \in Requests :
    /\ pc[r] \in {"CreateInternetGateway", "AttachInternetGateway"} => ENABLED CreateStep(r)
    /\ \A i \in 1..Len(calls[r]) :
         calls[r][i].op = "DescribeInternetGateways" /\ calls[r][i].err.nil /\ calls[r][i].out = << >> =>
           /\ i = Len(calls[r]) => pc[r] = "CreateInternetGateway"
           /\ i < Len(calls[r]) => calls[r][i + 1].op = "CreateInternetGateway"
           /\ i + 1 < Len(calls[r]) => calls[r][i + 2].op = "AttachInternetGateway"

C13_Witness ==
  \E q, r \in Requests :
    /\ q # r
    /\ Request(q).VPCID = Request(r).VPCID
    /\ Request(q).IsPublic /\ Request(r).IsPublic
    /\ SawNoGateway(q) /\ SawNoGateway(r)
    /\ Succeeded(q, "CreateInternetGateway") /\ Succeeded(r, "CreateInternetGateway")
    /\ Succeeded(q, "AttachInternetGateway") /\ Succeeded(r, "AttachInternetGateway")
    /\ Cardinality({g \in igws : g.vpc = Request(r).VPCID}) >= 2

(***************************************************************************)
(* C14: gateway acquisition is idempotent across sequential requests.  A   *)
(* create calls create-gateway and attach-gateway exactly when its         *)
(* describe-gateways query returned none; so of the successful public      *)
(* creates of one VPC, handled one after the other, at most one created    *)
(* and attached a gateway, and every later one routes to the first gateway *)
(* its query returned, which is attached to the VPC.                       *)
(***************************************************************************)
Called(r, op) == \E i \in 1..Len(calls[r]) : calls[r][i].op = op

CallOf(r, op) == calls[r][CHOOSE i \in 1..Len(calls[r]) : calls[r][i].op = op]

PublicCreated(r) ==
  /\ pc[r] = "done"
  /\ msg[r].Subject = "network.create.aws"
  /\ PublishedOn(r, ".done")
  /\ ev[r].IsPublic

C14_GatewayIdempotent ==
  /\ \A r \in Requests :
       /\ Called(r, "CreateInternetGateway") => SawNoGateway(r)
       /\ Called(r, "AttachInternetGateway") => SawNoGateway(r) /\ Succeeded(r, "CreateInternetGateway")
       /\ SawNoGateway(r) /\ PublicCreated(r) =>
            Succeeded(r, "CreateInternetGateway") /\ Succeeded(r, "AttachInternetGateway")
  /\ \A q, r \in Requests :
       q < r /\ PublicCreated(q) /\ PublicCreated(r) /\ ev[q].VPCID = ev[r].VPCID =>
         /\ ~Called(r, "CreateInternetGateway") /\ ~Called(r, "AttachInternetGateway")
         /\ CallOf(r, "DescribeInternetGateways").out # << >>
         /\ CallOf(r, "CreateRoute").GatewayId = CallOf(r, "DescribeInternetGateways").out[1]
         /\ [id |-> CallOf(r, "CreateRoute").GatewayId, vpc |-> ev[r].VPCID] \in igws

C14_Witness ==
  \E q, r \in Requests :
    /\ q < r
    /\ PublicCreated(q) /\ PublicCreated(r)
    /\ ev[q].VPCID = ev[r].VPCID
    /\ Succeeded(q, "CreateInternetGateway") /\ Succeeded(q, "AttachInternetGateway")
    /\ CallOf(r, "CreateRoute").GatewayId = CallOf(q, "AttachInternetGateway").GatewayId

(***************************************************************************)
(* C15: the default route of a public create.  Every create-route call has *)
(* destination 0.0.0.0/0, names the route table associated with the        *)
(* request's new subnet (the first one the route-table query returned,     *)
(* else the one the request created and associated) and names the gateway  *)
(* attached to the request's VPC (the first one the gateway query          *)
(* returned, else the one the request created and attached).               *)
(***************************************************************************)
FoundOrCreated(r, describe, create) ==
  IF CallOf(r, describe).out # << >> THEN CallOf(r, describe).out[1] ELSE CallOf(r, create).out[1]

C15_DefaultRoute ==
  \A r \in Requests :
    \A i \in 1..Len(calls[r]) :
      calls[r][i].op = "CreateRoute" =>
        /\ ev[r].IsPublic
        /\ calls[r][i].DestinationCidrBlock = "0.0.0.0/0"
        /\ calls[r][i].RouteTableId = FoundOrCreated(r, "DescribeRouteTables", "CreateRouteTable")
        /\ calls[r][i].GatewayId = FoundOrCreated(r, "DescribeInternetGateways", "CreateInternetGateway")
        /\ [id |-> calls[r][i].RouteTableId, subnet |-> CallOf(r, "CreateSubnet").out[1]] \in rtbs
        /\ [id |-> calls[r][i].GatewayId, vpc |-> ev[r].VPCID] \in igws

C15_Witness ==
  \E q, r \in Requests :
    /\ q < r
    /\ Succeeded(q, "CreateRoute") /\ Succeeded(r, "CreateRoute")
    /\ Succeeded(q, "AssociateRouteTable") /\ Succeeded(r, "AssociateRouteTable")
    /\ CallOf(q, "CreateRoute").RouteTableId # CallOf(r, "CreateRoute").RouteTableId
    /\ CallOf(q, "CreateRoute").GatewayId = CallOf(r, "CreateRoute").GatewayId

C15_WitnessFound ==
  \E r \in Requests :
    /\ Succeeded(r, "CreateRoute")
    /\ CallOf(r, "DescribeRouteTables").out = << "rtb-0" >>
    /\ CallOf(r, "CreateRoute").RouteTableId = "rtb-0"

(***************************************************************************)
(* C16: no retries and no rollback.  A failed EC2 call is the last call of *)
(* its request: the handler has returned, and no call (the same one again, *)
(* a later step of the sequence, or the removal of what was created) comes *)
(* after it.                                                               *)
(***************************************************************************)
C16_FailedCallIsLast ==
  \A r \in Requests :
    \A i \in 1..Len(calls[r]) :
      ~calls[r][i].err.nil =>
        /\ i = Len(calls[r])
        /\ pc[r] = "done"
        /\ ~ENABLED (CreateStep(r) \/ DeleteStep(r))

C16_Witness ==
  \E r \in Requests :
    /\ pc[r] = "done"
    /\ Ops(r) = << "CreateSubnet", "DescribeInternetGateways", "CreateInternetGateway",
                   "AttachInternetGateway", "DescribeRouteTables", "CreateRouteTable",
                   "AssociateRouteTable", "CreateRoute" >>
    /\ ~calls[r][8].err.nil
    /\ [id |-> NewGatewayId(r), vpc |-> Request(r).VPCID] \in igws
    /\ [id |-> NewRouteTableId(r), subnet |-> NewSubnetId(r)] \in rtbs

(***************************************************************************)
(* C17: when an EC2 call fails, the request is published on                *)
(* <subject>.error with error_message equal to the message of the failing  *)
(* call, unmodified; the failing call is the first call that failed.       *)
(***************************************************************************)
C17_CloudErrorPassedThrough ==
  \A r \in Requests :
    \A i \in 1..Len(calls[r]) :
      ~calls[r][i].err.nil =>
        /\ \A j \in 1..(i - 1) : calls[r][j].err.nil
        /\ PublishedOn(r, ".error")
        /\ JField(pubs[r][1].data, "error_message") = JStr(calls[r][i].err.msg)

C17_Witness ==
  \E r \in Requests :
    /\ pc[r] = "done"
    /\ Ops(r) = << "DescribeNetworkInterfaces", "DeleteSubnet" >>
    /\ JField(msg[r].Data, "error_message") = JStr("previous failure")
    /\ calls[r][2].err = AWSError("DeleteSubnet")
    /\ pubs[r][1].subject = "network.delete.aws.error"
    /\ JField(pubs[r][1].data, "error_message") = JStr("RequestError: DeleteSubnet failed")

(***************************************************************************)
(* C18: the result fields are written only by a fully successful create.   *)
(* A create published on <subject>.error, at whatever step it failed,      *)
(* carries network_aws_id and availability_zone as the request gave them,  *)
(* also when create-subnet had already returned a subnet.                  *)
(***************************************************************************)
Published(r) == Unmarshal(pubs[r][1].data, New(msg[r].Subject, pubs[r][1].data)).ev

C18_FailedCreateKeepsResultFields ==
  \A r \in Requests :
    pc[r] = "done" /\ msg[r].Subject = "network.create.aws" /\ PublishedOn(r, ".error") =>
      /\ Published(r).NetworkAWSID = Request(r).NetworkAWSID
      /\ Published(r).AvailabilityZone = Request(r).AvailabilityZone

C18_Witness ==
  \E r \in Requests :
    /\ pc[r] = "done"
    /\ msg[r].Subject = "network.create.aws"
    /\ PublishedOn(r, ".error")
    /\ Succeeded(r, "CreateSubnet")
    /\ CallOf(r, "CreateSubnet").out = << NewSubnetId(r), "eu-west-1a" >>
    /\ Called(r, "ModifySubnetAttribute")
    /\ Request(r).AvailabilityZone = ""
    /\ Request(r).NetworkAWSID # NewSubnetId(r)
    /\ JField(pubs[r][1].data, "availability_zone") = JStr("")

(***************************************************************************)
(* C19: liveness of delete, when every EC2 call returns (SpecFair).        *)
(* ValidDelete(r): the request is a delete whose payload decodes and       *)
(* passes every check.  Attached(r): the number of interfaces attached to  *)
(* the subnet the request names.                                           *)
(***************************************************************************)
ValidDelete(r) ==
  /\ Delivered(r)
  /\ msg[r].Subject = "network.delete.aws"
  /\ WellFormed(msg[r].Data)
  /\ FirstFailure(Request(r), "delete") = ""

Attached(r) == Interfaces(Request(r).NetworkAWSID)

QueryFailed(r) ==
  \E i \in 1..Len(calls[r]) : calls[r][i].op = "DescribeNetworkInterfaces" /\ ~calls[r][i].err.nil

\* C19 as stated: a valid delete whose subnet ends up free of interfaces
\* calls delete-subnet; so a handler that has returned with the subnet free
\* has called it
C19_DeleteAlwaysCallsDeleteSubnet ==
  \A r \in Requests :
    ValidDelete(r) /\ pc[r] = "done" /\ Attached(r) = 0 => Called(r, "DeleteSubnet")

\* C19 as the code has it: a valid delete whose subnet is free of interfaces
\* and stays so eventually publishes on <subject>.done or <subject>.error,
\* and it has called delete-subnet before unless a describe-network-interfaces
\* query failed; it calls delete-subnet only after a query returned none
C19_DeleteTerminates ==
  /\ \A r \in Requests :
       (ValidDelete(r) /\ Attached(r) = 0 /\ Polls(r) < MaxPolls)
         ~> (Attached(r) # 0 \/ (pc[r] = "done" /\ Len(pubs[r]) = 1))
  /\ [](\A r \in Requests :
          ValidDelete(r) /\ pc[r] = "done" =>
            /\ PublishedOn(r, ".done") \/ PublishedOn(r, ".error")
            /\ Called(r, "DeleteSubnet") <=> ~QueryFailed(r))

C19_Witness ==
  \E r \in Requests :
    /\ ValidDelete(r)
    /\ pc[r] = "done"
    /\ Ops(r) = << "DescribeNetworkInterfaces", "DescribeNetworkInterfaces", "DeleteSubnet" >>
    /\ calls[r][1].out # << >> /\ calls[r][2].out = << >>
    /\ PublishedOn(r, ".done")

(***************************************************************************)
(* C20: the delete poll never gives up on its own.  While every            *)
(* describe-network-interfaces query of a delete has succeeded and         *)
(* returned at least one interface, whatever their number, the handler is  *)
(* still polling: it has published nothing, neither an error nor a done    *)
(* message, and its next step is another query.                            *)
(***************************************************************************)
StillAttached(r) ==
  /\ Len(calls[r]) > 0
  /\ \A i \in 1..Len(calls[r]) :
       /\ calls[r][i].op = "DescribeNetworkInterfaces"
       /\ calls[r][i].err.nil
       /\ calls[r][i].out # << >>

C20_PollNeverGivesUp ==
  \A r \in Requests :
    StillAttached(r) =>
      /\ pubs[r] = << >>
      /\ pc[r] = "DescribeNetworkInterfaces"
      /\ Len(calls[r]) < MaxPolls => ENABLED DescribeNetworkInterfaces(r)

C20_Witness ==
  \E r \in Requests :
    /\ StillAttached(r)
    /\ Len(calls[r]) = MaxPolls
    /\ MaxPolls >= 2
    /\ pubs[r] = << >>

(***************************************************************************)
(* C21: every EC2 call of the worker is made for a request whose VPC id,   *)
(* region, access key and access token are non-empty, with a client built  *)
(* from them; create-subnet is called with a non-empty CIDR range only,    *)
(* and describe-network-interfaces and delete-subnet with a non-empty      *)
(* subnet identifier only.                                                 *)
(***************************************************************************)
C21_CallsOnlyForValidRequests ==
  \A r \in Requests :
    \A i \in 1..Len(calls[r]) :
      LET c == calls[r][i]
          q == Request(r)
      IN  /\ q.VPCID # "" /\ q.DatacenterRegion # ""
          /\ q.DatacenterAccessKey # "" /\ q.DatacenterAccessToken # ""
          /\ c.Region # "" /\ c.AccessKey # "" /\ c.AccessToken # ""
          /\ c.op = "CreateSubnet" => c.CidrBlock # "" /\ c.VpcId # ""
          /\ c.op \in {"DescribeNetworkInterfaces", "DeleteSubnet"} => c.SubnetId # ""

C21_Witness ==
  \E r \in Requests :
    /\ pc[r] = "done"
    /\ Ops(r) = << "DescribeNetworkInterfaces", "DeleteSubnet" >>
    /\ calls[r][2].SubnetId = "subnet-00000000"
    /\ Request(r).Subnet = ""

(***************************************************************************)
(* C22: concurrent handlers do not share request state.  Under every       *)
(* interleaving of two requests, each EC2 call is made with the region,    *)
(* access key and access token of the request it belongs to, and each      *)
(* publication is on the subject of its own request and carries that       *)
(* request's fields.                                                       *)
(***************************************************************************)
RequestFields(e) ==
  << e.UUID, e.BatchID, e.ProviderType, e.DatacenterRegion, e.DatacenterAccessKey,
     e.DatacenterAccessToken, e.VPCID, e.Name, e.Subnet, e.IsPublic >>

C22_NoSharedRequestState ==
  \A r \in Requests :
    /\ \A i \in 1..Len(calls[r]) :
         /\ calls[r][i].Region = Request(r).DatacenterRegion
         /\ calls[r][i].AccessKey = Request(r).DatacenterAccessKey
         /\ calls[r][i].AccessToken = Request(r).DatacenterAccessToken
    /\ \A i \in 1..Len(pubs[r]) :
         /\ pubs[r][i].subject \in {msg[r].Subject \o ".done", msg[r].Subject \o ".error"}
         /\ RequestFields(Published(r)) = RequestFields(Request(r))

C22_Witness ==
  \E q, r \in Requests :
    /\ Delivered(q) /\ Delivered(r)
    /\ Request(q).DatacenterRegion # Request(r).DatacenterRegion
    /\ Request(q).DatacenterAccessKey # Request(r).DatacenterAccessKey
    /\ Len(calls[q]) >= 2 /\ Len(calls[r]) >= 2
    /\ pc[q] \notin {"idle", "done"} /\ pc[r] \notin {"idle", "done"}

(***************************************************************************)
(* C23: requests for different VPCs are independent.  A request whose VPC  *)
(* no other delivered request names makes, under every interleaving, the   *)
(* calls it makes when it runs alone: its gateway query returns the        *)
(* gateways its VPC had before any request, its route-table query returns  *)
(* none, its interface queries return the interfaces of its subnet, and    *)
(* when no call fails its calls and its publication are those determined   *)
(* by its own payload and that initial state.                              *)
(***************************************************************************)
Unshared(r) ==
  /\ Delivered(r)
  /\ \A q \in Requests \ {r} : Delivered(q) => Request(q).VPCID # Request(r).VPCID

\* the gateways attached to the VPC that no request of the run created
InitialGateways(vpc) ==
  {g.id : g \in {a \in igws : a.vpc = vpc /\ \A q \in Requests : a.id # NewGatewayId(q)}}

Range(s) == {s[i] : i \in 1..Len(s)}

C23_DifferentVPCsIndependent ==
  \A r \in Requests :
    Unshared(r) =>
      /\ \A i \in 1..Len(calls[r]) :
           calls[r][i].err.nil =>
             /\ calls[r][i].op = "DescribeInternetGateways" =>
                  Range(calls[r][i].out) = InitialGateways(Request(r).VPCID)
             /\ calls[r][i].op = "DescribeRouteTables" => calls[r][i].out = << >>
             /\ calls[r][i].op = "DescribeNetworkInterfaces" =>
                  Len(calls[r][i].out) = Interfaces(Request(r).NetworkAWSID)
      /\ msg[r].Subject = "network.create.aws" /\ PublishedOn(r, ".done") =>
           /\ Ops(r) = PublicCreateOrder(InitialGateways(Request(r).VPCID) # {}, FALSE)
           /\ \E z \in Zones \cup {Request(r).AvailabilityZone} :
                pubs[r][1].data =
                  Marshal([Request(r) EXCEPT !.NetworkAWSID = "subnet-" \o ToString(r),
                                             !.AvailabilityZone = z]).data
      /\ msg[r].Subject = "network.delete.aws" /\ PublishedOn(r, ".done") =>
           /\ Ops(r)[Len(calls[r])] = "DeleteSubnet"
           /\ pubs[r][1].data = Marshal(Request(r)).data

C23_Witness ==
  \E q, r \in Requests :
    /\ Unshared(q) /\ Unshared(r) /\ q # r
    /\ msg[q].Subject = "network.create.aws" /\ msg[r].Subject = "network.create.aws"
    /\ pc[q] \notin {"idle", "done"} /\ pc[r] \notin {"idle", "done"}
    /\ Succeeded(q, "DescribeInternetGateways") /\ Succeeded(r, "AttachInternetGateway")
    /\ CallOf(q, "DescribeInternetGateways").out = << "igw-0" >>

(***************************************************************************)
(* C24: update and get make no EC2 call.  A request on an update or get    *)
(* subject, whatever its payload, has made no call at any point of its     *)
(* handling and its handler has returned without a call left to make.      *)
(***************************************************************************)
C24_UpdateGetNoCall ==
  \A r \in Requests :
    Delivered(r) /\ msg[r].Subject \in {"network.update.aws", "network.get.aws"} =>
      /\ calls[r] = << >>
      /\ pc[r] = "done"
      /\ ~ENABLED (CreateStep(r) \/ DeleteStep(r))

C24_Witness ==
  \E r \in Requests :
    /\ pc[r] = "done"
    /\ msg[r].Subject = "network.get.aws"
    /\ WellFormed(msg[r].Data)
    /\ FirstFailure(Request(r), "get") = ""
    /\ calls[r] = << >>
    /\ PublishedOn(r, ".error")
    /\ JField(pubs[r][1].data, "error_message") = JStr("network.get.aws not supported")

(***************************************************************************)
(* C25: Validate and the dispatch agree on what a delete request is.  For  *)
(* a message of a subject the worker subscribes to whose payload decodes   *)
(* and passes the checks of the four datacenter fields: when the second    *)
(* segment of the subject selects Delete, Validate fails exactly on an     *)
(* empty subnet identifier, whatever the CIDR range; when it selects       *)
(* another handler, Validate fails exactly on an empty CIDR range,         *)
(* whatever the subnet identifier; and the handler acts accordingly.       *)
(***************************************************************************)
DatacenterChecked(e) ==
  /\ e.VPCID # "" /\ e.DatacenterRegion # ""
  /\ e.DatacenterAccessKey # "" /\ e.DatacenterAccessToken # ""

C25_ValidateAgreesWithDispatch ==
  \A r \in Requests :
    Delivered(r) /\ WellFormed(msg[r].Data) /\ DatacenterChecked(Request(r)) =>
      LET e == Request(r)
          text == IF PublishedOn(r, ".error") /\ calls[r] = << >>
                  THEN JField(pubs[r][1].data, "error_message") ELSE JNull
      IN  IF Action(r) = "delete"
          THEN /\ \A c \in {"", "10.0.0.0/16"} :
                    /\ Validate([e EXCEPT !.NetworkAWSID = "", !.Subnet = c]) = ErrNetworkAWSIDInvalid
                    /\ Validate([e EXCEPT !.NetworkAWSID = "subnet-00000000", !.Subnet = c]) = Nil
               /\ e.NetworkAWSID = "" <=> text = JStr("Network aws id invalid")
               /\ e.NetworkAWSID # "" => pc[r] \in {"DescribeNetworkInterfaces", "DeleteSubnet", "done"}
               /\ text # JStr("Network subnet invalid")
          ELSE /\ \A n \in {"", "subnet-00000000"} :
                    /\ Validate([e EXCEPT !.Subnet = "", !.NetworkAWSID = n]) = ErrNetworkSubnetInvalid
                    /\ Validate([e EXCEPT !.Subnet = "10.0.0.0/16", !.NetworkAWSID = n]) = Nil
               /\ e.Subnet = "" <=> text = JStr("Network subnet invalid")
               /\ text # JStr("Network aws id invalid")

C25_Witness ==
  \E r \in Requests :
    /\ pc[r] = "done"
    /\ msg[r].Subject = "network.delete.aws"
    /\ WellFormed(msg[r].Data) /\ DatacenterChecked(Request(r))
    /\ Request(r).NetworkAWSID = "" /\ Request(r).Subnet # ""
    /\ calls[r] = << >>
    /\ PublishedOn(r, ".error")
    /\ JField(pubs[r][1].data, "error_message") = JStr("Network aws id invalid")

(***************************************************************************)
(* C26: the dispatch has no default branch.  A request that decodes and    *)
(* passes validation, on a subject whose second segment is none of create, *)
(* update, delete and get, is published once on <subject>.done, with no    *)
(* EC2 call made and every field as the request gave it.                   *)
(***************************************************************************)
C26_UnknownActionCompletes ==
  \A r \in Requests :
    /\ Delivered(r)
    /\ WellFormed(msg[r].Data)
    /\ Len(Split(msg[r].Subject)) >= 2
    /\ Action(r) \notin {"create", "update", "delete", "get"}
    /\ FirstFailure(Request(r), Action(r)) = ""
    => /\ pc[r] = "done"
       /\ calls[r] = << >>
       /\ pubs[r] = << Publication(msg[r].Subject \o ".done", Marshal(Request(r)).data) >>

C26_Witness ==
  \E r \in Requests :
    /\ pc[r] = "done"
    /\ msg[r].Subject = "network.sync.aws"
    /\ msg[r].Data = expected
    /\ calls[r] = << >>
    /\ pubs[r] = << Publication("network.sync.aws.done", expected) >>

====
